---- MODULE Spec2Model ----
(***************************************************************************)
(* Task orchestration and provider session engine of tt-bot.               *)
(*                                                                         *)
(* TikTokService (src/scripts/setup.js 870-1317), BaseProvider             *)
(* (src/unnamed/part_001), ZefoyProvider.performAction                     *)
(* (src/unnamed/part_002 22-130) and BrowserManager                        *)
(* (src/scripts/setup.js 617-861).                                         *)
(*                                                                         *)
(* The engine runs on one JavaScript event loop: a handler runs without    *)
(* interruption up to its first wait on real I/O or on a timer.  Each      *)
(* action below is one such uninterrupted stretch.  Task records are       *)
(* JavaScript objects shared by reference between the active map, the      *)
(* history array and the closures of in-flight calls: `task` is the arena  *)
(* of those objects, activeTasks and taskHistory hold references (ids).    *)
(*                                                                         *)
(* Time is Date.now() in milliseconds; the clock is observed after a      *)
(* retry delay or after an inter-action delay has gone by, at most         *)
(* MaxTicks times.                                                         *)
(***************************************************************************)
EXTENDS Integers, Sequences, FiniteSets, TLC

\* ---------------------------------------------------------------- bounds
MaxTasks == 2
MaxTicks == 1
MaxOverride == 1
MaxActions == 3

\* ------------------------------------------------------- program constants
\* config.tiktok.maxRetries
MaxRetries == 3
\* config.tiktok.retryDelay
RetryDelay == 5000
\* config.providers.zefoy.delays.betweenActions
ZefoyDelay == 30000
\* config.providers.freer.delays.betweenActions
FreerDelay == 25000
SessionTimeout == 3600000
\* completeTask keeps the last 1000 records (setup.js 1187); 3 stands for
\* the 1000 so that the trimming happens within MaxTasks
HistoryLimit == 2
MaxSessions == 2
MaxSessionTicks == 3

BetweenActions(p) == IF p = "zefoy" THEN ZefoyDelay ELSE FreerDelay

\* Date.now() when the service is constructed: any value far above every
\* configured delay; lastActionTime starts at 0
Epoch == 2 * ZefoyDelay

TaskIds == 1..MaxTasks
\* ids a caller may pass to cancelTask: the created ones and one unknown
AnyIds == 1..(MaxTasks + 1)
\* the amounts by which the clock is seen to advance
TickSteps == {RetryDelay, ZefoyDelay}

None == "none"
NoOverride == -1

VARIABLES
  now,          \* Date.now()
  ticks,        \* number of clock steps taken
  registry,     \* this.providers: provider names in insertion order
  provider,     \* per provider: isAvailable, lastActionTime, actionCount, errorCount
  task,         \* the task objects, by id
  nextTask,     \* number of task objects created so far
  activeTasks,  \* this.activeTasks: ids of the registered task objects
  taskHistory,  \* this.taskHistory: sequence of references to task objects
  call,         \* per task: the provider execution in flight, if any
  timers,       \* pending setTimeout(retryTask) callbacks
  browsers,     \* browserManager.browsers: session id -> createdAt
  handles,      \* the browser processes puppeteer.launch has started and
                \* nothing has closed: session id -> "live", or "dead" once
                \* the process has gone away by itself
  returned,     \* what the call of the last step returned: the answer of
                \* cancelTask, of closeBrowser and of the query calls, the
                \* rejection or no-provider report of performAction; Nothing
                \* after any other step
  \* history variables, read by the properties only
  calls,        \* per task: provider.performAction invocations started
  failures,     \* per task: provider executions that returned a failure
  retryingReports, \* per task: times the status was set to retrying
  cancelledOk,  \* tasks for which cancelTask returned true
  evicted,      \* tasks of which a history record was dropped
  opened        \* per provider: a failed updateStats reached the threshold
                \* since the last reset

vars == <<now, ticks, registry, provider, task, nextTask, activeTasks,
          taskHistory, call, timers, browsers, handles,
          returned, calls, failures, retryingReports, cancelledOk, evicted,
          opened>>

\* ------------------------------------------------------------ BaseProvider

\* a provider that starts with its circuit open
NewProviderClosed ==
  [isAvailable |-> FALSE, lastActionTime |-> 0, actionCount |-> 0, errorCount |-> 0]

\* BaseProvider constructor
NewProvider ==
  [isAvailable |-> TRUE, lastActionTime |-> 0, actionCount |-> 0, errorCount |-> 0]

\* checkAvailability with the delay comparison off by one
CheckAvailabilityStrict(p, st, t) ==
  IF ~st.isAvailable THEN FALSE
  ELSE IF t - st.lastActionTime <= BetweenActions(p) THEN FALSE
  ELSE TRUE

\* checkAvailability() of provider p in state st at time t
CheckAvailability(p, st, t) ==
  IF ~st.isAvailable THEN FALSE
  ELSE IF t - st.lastActionTime < BetweenActions(p) THEN FALSE
  ELSE TRUE

\* updateStats that opens the circuit one failure late
UpdateStatsLate(st, success, t) ==
  LET base == [st EXCEPT !.lastActionTime = t, !.actionCount = st.actionCount + 1]
  IN IF success
       THEN [base EXCEPT !.errorCount = 0]
       ELSE LET ec == st.errorCount + 1
            IN [base EXCEPT !.errorCount = ec,
                            !.isAvailable = IF ec > MaxRetries THEN FALSE
                                            ELSE st.isAvailable]

\* updateStats whose success branch also closes the circuit
UpdateStatsHeals(st, success, t) ==
  LET base == [st EXCEPT !.lastActionTime = t, !.actionCount = st.actionCount + 1]
  IN IF success
       THEN [base EXCEPT !.errorCount = 0, !.isAvailable = TRUE]
       ELSE LET ec == st.errorCount + 1
            IN [base EXCEPT !.errorCount = ec,
                            !.isAvailable = IF ec >= MaxRetries THEN FALSE
                                            ELSE st.isAvailable]

\* updateStats whose success branch keeps the error count
UpdateStatsSticky(st, success, t) ==
  LET base == [st EXCEPT !.lastActionTime = t, !.actionCount = st.actionCount + 1]
  IN IF success
       THEN base
       ELSE LET ec == st.errorCount + 1
            IN [base EXCEPT !.errorCount = ec,
                            !.isAvailable = IF ec >= MaxRetries THEN FALSE
                                            ELSE st.isAvailable]

\* updateStats(success) at time t
UpdateStats(st, success, t) ==
  LET base == [st EXCEPT !.lastActionTime = t, !.actionCount = st.actionCount + 1]
  IN IF success
       THEN [base EXCEPT !.errorCount = 0]
       ELSE LET ec == st.errorCount + 1
            IN [base EXCEPT !.errorCount = ec,
                            !.isAvailable = IF ec >= MaxRetries THEN FALSE
                                            ELSE st.isAvailable]

\* a reset that also forgets the action history
ResetAvailabilityForgets(st) ==
  [st EXCEPT !.isAvailable = TRUE, !.errorCount = 0, !.actionCount = 0, !.lastActionTime = 0]

\* resetAvailability()
ResetAvailability(st) == [st EXCEPT !.isAvailable = TRUE, !.errorCount = 0]

\* getStats().timeSinceLastAction
TimeSinceLastAction(st, t) == t - st.lastActionTime

\* ------------------------------------------- TikTokService: pure helpers

\* A video URL argument: what kind of value it is (a non-empty string, the
\* empty string, a number, null or undefined) and, for a non-empty string,
\* the parts the validation pattern looks at: scheme, optional www., host,
\* and whether anything follows the slash after the host.
Urls ==
  { [kind |-> "string", scheme |-> "https", www |-> TRUE,  host |-> "tiktok.com",    path |-> TRUE],
    [kind |-> "string", scheme |-> "http",  www |-> FALSE, host |-> "vm.tiktok.com", path |-> TRUE],
    [kind |-> "string", scheme |-> "https", www |-> FALSE, host |-> "youtube.com",   path |-> TRUE],
    [kind |-> "nullish", scheme |-> "",     www |-> FALSE, host |-> "",              path |-> FALSE] }

\* more arguments: the other valid shapes and the other ways to be invalid
AllUrls ==
  Urls \cup
  { [kind |-> "string", scheme |-> "https", www |-> FALSE, host |-> "tiktok.com",    path |-> TRUE],
    [kind |-> "string", scheme |-> "https", www |-> FALSE, host |-> "vt.tiktok.com", path |-> TRUE],
    [kind |-> "string", scheme |-> "https", www |-> FALSE, host |-> "instagram.com", path |-> TRUE],
    [kind |-> "string", scheme |-> "ftp",   www |-> TRUE,  host |-> "tiktok.com",    path |-> TRUE],
    [kind |-> "string", scheme |-> "",      www |-> FALSE, host |-> "",              path |-> FALSE],
    [kind |-> "string", scheme |-> "https", www |-> TRUE,  host |-> "tiktok.com",    path |-> FALSE],
    [kind |-> "empty",  scheme |-> "",      www |-> FALSE, host |-> "",              path |-> FALSE],
    [kind |-> "number", scheme |-> "",      www |-> FALSE, host |-> "",              path |-> FALSE] }

\* a validation whose pattern does not look at the scheme
ValidateVideoUrlAnyScheme(u) ==
  IF u.kind # "string" THEN FALSE
  ELSE /\ u.host \in {"tiktok.com", "vm.tiktok.com", "vt.tiktok.com"}
       /\ u.path

\* validateVideoUrl: /^https?:\/\/(www\.)?(tiktok\.com|vm\.tiktok\.com|vt\.tiktok\.com)\/.+/i
ValidateVideoUrl(u) ==
  IF u.kind # "string" THEN FALSE
  ELSE /\ u.scheme \in {"http", "https"}
       /\ u.host \in {"tiktok.com", "vm.tiktok.com", "vt.tiktok.com"}
       /\ u.path

GetAvailableActions == {"views", "likes", "shares", "favorites", "followers", "comments"}
ActionTypes == {"views", "dislikes"}
\* the calls made on a service that takes every shape of argument: each
\* URL with a permitted action type, a valid URL with another permitted
\* type and with two that are not permitted (an unknown name, null), and a
\* call with both arguments invalid
Requests ==
  {<<u, "views">> : u \in AllUrls}
  \cup {<<CHOOSE u \in Urls : ValidateVideoUrl(u), a>> : a \in {"comments", "dislikes", "null"}}
  \cup {<<CHOOSE u \in Urls : u.kind = "nullish", "dislikes">>}

\* options.maxAttempts || config.tiktok.maxRetries
MaxAttemptsOf(opt) == IF opt = NoOverride \/ opt = 0 THEN MaxRetries ELSE opt

\* the comparator with the error counts subtracted the other way round
CompareReversed(a, b, t) ==
  IF provider[a].errorCount # provider[b].errorCount
    THEN provider[b].errorCount - provider[a].errorCount
    ELSE (t - provider[a].lastActionTime) - (t - provider[b].lastActionTime)

\* the comparator of findAvailableProvider's sort
Compare(a, b, t) ==
  IF provider[a].errorCount # provider[b].errorCount
    THEN provider[a].errorCount - provider[b].errorCount
    ELSE TimeSinceLastAction(provider[a], t) - TimeSinceLastAction(provider[b], t)

RECURSIVE InsertUnstable(_, _, _)
\* an insertion that also moves x before an element it compares equal to
InsertUnstable(x, s, t) ==
  IF s = <<>> THEN <<x>>
  ELSE IF Compare(x, Head(s), t) <= 0 THEN <<x>> \o s
  ELSE <<Head(s)>> \o InsertUnstable(x, Tail(s), t)

RECURSIVE Insert(_, _, _)
\* x placed after every element of the sorted s that it does not precede
Insert(x, s, t) ==
  IF s = <<>> THEN <<x>>
  ELSE IF Compare(x, Head(s), t) < 0 THEN <<x>> \o s
  ELSE <<Head(s)>> \o Insert(x, Tail(s), t)

RECURSIVE SortProviders(_, _)
\* Array.prototype.sort with Compare: a stable sort
SortProviders(s, t) ==
  IF s = <<>> THEN <<>>
  ELSE Insert(s[Len(s)], SortProviders(SubSeq(s, 1, Len(s) - 1), t), t)

RECURSIVE FilterAvailable(_, _)
FilterAvailable(s, t) ==
  IF s = <<>> THEN <<>>
  ELSE IF CheckAvailability(Head(s), provider[Head(s)], t)
    THEN <<Head(s)>> \o FilterAvailable(Tail(s), t)
    ELSE FilterAvailable(Tail(s), t)

\* a selection that skips the availability test
FindAvailableProviderAny(t) ==
  IF registry = <<>> THEN None ELSE Head(SortProviders(registry, t))

\* findAvailableProvider at time t: a provider name, or None for null
FindAvailableProvider(t) ==
  LET availableProviders == FilterAvailable(registry, t)
  IN IF availableProviders = <<>> THEN None
     ELSE Head(SortProviders(availableProviders, t))

\* a trim that keeps the first records instead of the last
PushHistoryKeepsOldest(h, id) ==
  LET pushed == Append(h, id)
  IN IF Len(pushed) > HistoryLimit
       THEN SubSeq(pushed, 1, HistoryLimit)
       ELSE pushed

\* completeTask's effect on the history array
PushHistory(h, id) ==
  LET pushed == Append(h, id)
  IN IF Len(pushed) > HistoryLimit
       THEN SubSeq(pushed, Len(pushed) - HistoryLimit + 1, Len(pushed))
       ELSE pushed

\* the references completeTask drops from the history array
Dropped(h, id) ==
  LET pushed == Append(h, id)
  IN IF Len(pushed) > HistoryLimit
       THEN {pushed[i] : i \in 1..(Len(pushed) - HistoryLimit)}
       ELSE {}

\* retryTask looking at the status of the task object alone
RetryProceedsByStatus(id) == task[id].status = "retrying"

\* retryTask without its guard
RetryProceedsAlways(id) == TRUE

\* retryTask proceeds only for a registered task in status retrying
RetryProceeds(id) == id \in activeTasks /\ task[id].status = "retrying"

NoTask ==
  [status |-> None, provider |-> None, attempts |-> 0, maxAttempts |-> 0,
   createdAt |-> 0, completedAt |-> 0, cancelledAt |-> 0,
   error |-> None, result |-> None]

Idle ==
  [phase |-> "idle", origin |-> None, provider |-> None, session |-> 0,
   step |-> None, success |-> FALSE]


Nothing == [op |-> None, id |-> 0, prov |-> None, value |-> None]
Return(op, id, p, v) == [op |-> op, id |-> id, prov |-> p, value |-> v]
Str(b) == IF b THEN "true" ELSE "false"

\* a success that starts the attempt count afresh
AfterResultResetsAttempts(rec, origin, success, err, t) ==
  IF success
    THEN [rec EXCEPT !.status = "completed", !.completedAt = t, !.result = "success",
                     !.attempts = 0]
    ELSE LET att == rec.attempts + 1
         IN [rec EXCEPT !.error = err, !.attempts = att,
                        !.status = IF origin = "performAction" /\ att < rec.maxAttempts
                                     THEN "retrying" ELSE "failed"]

\* the task record when a failure is not a Result but an exception that
\* reaches the catch block of performAction (1033-1042): failed, attempts
\* not counted
AfterResultThrown(rec, origin, success, err, t) ==
  IF success
    THEN [rec EXCEPT !.status = "completed", !.completedAt = t, !.result = "success"]
    ELSE [rec EXCEPT !.error = err, !.status = "failed"]

\* an orchestrator that does not count a refusal of the provider as an
\* attempt
AfterResultSkipsRefusal(rec, origin, success, err, t) ==
  IF success
    THEN [rec EXCEPT !.status = "completed", !.completedAt = t, !.result = "success"]
    ELSE LET att == IF err = "Provider not available" THEN rec.attempts ELSE rec.attempts + 1
         IN [rec EXCEPT !.error = err, !.attempts = att,
                        !.status = IF origin = "performAction" /\ att < rec.maxAttempts
                                     THEN "retrying" ELSE "failed"]

\* an orchestrator that counts the failures of retries only
AfterResultUncountedFirst(rec, origin, success, err, t) ==
  IF success
    THEN [rec EXCEPT !.status = "completed", !.completedAt = t, !.result = "success"]
    ELSE LET att == IF origin = "performAction" THEN rec.attempts ELSE rec.attempts + 1
         IN [rec EXCEPT !.error = err, !.attempts = att,
                        !.status = IF origin = "performAction" /\ att < rec.maxAttempts
                                     THEN "retrying" ELSE "failed"]

\* an orchestrator that marks the task failed before it schedules the retry
AfterResultFailsAtOnce(rec, origin, success, err, t) ==
  IF success
    THEN [rec EXCEPT !.status = "completed", !.completedAt = t, !.result = "success"]
    ELSE [rec EXCEPT !.error = err, !.attempts = rec.attempts + 1, !.status = "failed"]

\* the task record after performAction / retryTask has interpreted a Result
\* (performAction 996-1029, retryTask 1153-1161)
AfterResult(rec, origin, success, err, t) ==
  IF success
    THEN [rec EXCEPT !.status = "completed", !.completedAt = t, !.result = "success"]
    ELSE LET att == rec.attempts + 1
         IN [rec EXCEPT !.error = err, !.attempts = att,
                        !.status = IF origin = "performAction" /\ att < rec.maxAttempts
                                     THEN "retrying" ELSE "failed"]

\* performAction schedules a retry and returns without completing the task
SchedulesRetry(rec, origin, success) ==
  ~success /\ origin = "performAction" /\ rec.attempts + 1 < rec.maxAttempts

\* ------------------------------------------------------------------- Init

InitCommon ==
  /\ now = Epoch
  /\ ticks = 0
  /\ provider = [p \in {registry[i] : i \in 1..Len(registry)} |-> NewProvider]
  /\ task = [id \in TaskIds |-> NoTask]
  /\ nextTask = 0
  /\ activeTasks = {}
  /\ taskHistory = <<>>
  /\ call = [id \in TaskIds |-> Idle]
  /\ timers = {}
  /\ browsers = <<>>
  /\ handles = <<>>
  /\ returned = Nothing
  /\ calls = [id \in TaskIds |-> 0]
  /\ failures = [id \in TaskIds |-> 0]
  /\ retryingReports = [id \in TaskIds |-> 0]
  /\ cancelledOk = {}
  /\ evicted = {}
  /\ opened = [p \in {registry[i] : i \in 1..Len(registry)} |-> FALSE]

\* TikTokService constructor and initializeProviders: zefoy alone
Init ==
  /\ registry = <<"zefoy">>
  /\ InitCommon

\* ---------------------------------------------------------------- actions

\* completeTask(id): unregister, push, trim
CompleteTask(id) ==
  /\ activeTasks' = activeTasks \ {id}
  /\ taskHistory' = PushHistory(taskHistory, id)
  /\ evicted' = evicted \cup Dropped(taskHistory, id)

\* A provider Result for task id reaches the orchestrator code that awaited
\* it: performAction 995-1032 or retryTask 1153-1163.  rec is the task
\* object as it is now, tm the timers still pending.
Deliver(id, origin, success, err, tm) ==
  LET rec == task[id]
  IN /\ task' = [task EXCEPT ![id] = AfterResult(rec, origin, success, err, now)]
     /\ failures' = [failures EXCEPT ![id] = IF success THEN @ ELSE @ + 1]
     /\ IF SchedulesRetry(rec, origin, success)
          THEN /\ timers' = tm \cup {[taskId |-> id, due |-> now + RetryDelay]}
               /\ retryingReports' = [retryingReports EXCEPT ![id] = @ + 1]
               /\ UNCHANGED <<activeTasks, taskHistory, evicted>>
          ELSE /\ timers' = tm
               /\ UNCHANGED retryingReports
               /\ CompleteTask(id)

\* browserManager.closeBrowser(s) on the registry b: the registry it leaves
\* and the value it returns.  ok tells whether page.close() and
\* browser.close() go through; when one of them throws, the catch block
\* returns false and the delete statement is not reached.
\* h are the browser processes: page.close() and browser.close() are only
\* called on a page that is not closed and a browser that has a process.
CloseBrowser(b, h, s, ok) ==
  IF s \notin DOMAIN b THEN [browsers |-> b, handles |-> h, value |-> FALSE]
  ELSE IF ok \/ s \notin DOMAIN h \/ h[s] = "dead"
    THEN [browsers |-> [x \in DOMAIN b \ {s} |-> b[x]],
          handles |-> [x \in DOMAIN h \ {s} |-> h[x]], value |-> TRUE]
  ELSE [browsers |-> b, handles |-> h, value |-> FALSE]

\* the browser processes after launchBrowser(s) has settled: the process
\* exists as soon as puppeteer.launch has returned (638), whether or not
\* the page set-up after it goes through; the catch block (653-656) closes
\* nothing
Launched(h, s, outcome) ==
  IF outcome = "launchFail" THEN h
  ELSE [x \in DOMAIN h \cup {s} |-> IF x = s THEN "live" ELSE h[x]]

\* a finally block that closes only a session whose launch went through
ReleasedSessionIfLaunched(c) == IF c.phase = "launching" THEN 0 ELSE c.session

\* the session the finally block of provider.performAction closes
\* (part_002 125-129: if (sessionId) closeBrowser(sessionId)); 0 for none
ReleasedSession(c) == c.session

\* a session id derived from the task alone
SessionIdPerTask(id, n) == id

\* uuidv4() of part_002 41: a session id no other execution has
SessionId(id, n) == 2 * (id - 1) + n

\* statistics that are only updated by a failing execution
ApplyStatsOnFailureOnly(p, success) ==
  /\ provider' = [provider EXCEPT ![p] = IF success THEN @ ELSE UpdateStats(@, FALSE, now)]
  /\ opened' = [opened EXCEPT ![p] = @ \/ (~success /\ provider[p].errorCount + 1 >= MaxRetries)]

\* provider.updateStats(success), with the record of a circuit opening
ApplyStats(p, success) ==
  /\ provider' = [provider EXCEPT ![p] = UpdateStats(provider[p], success, now)]
  /\ opened' = [opened EXCEPT ![p] = @ \/ (~success /\ provider[p].errorCount + 1 >= MaxRetries)]

\* executeAction -> provider.performAction up to its first wait
\* (part_002 22-46): a provider that is not available answers at once,
\* otherwise a session id is minted and the browser launch begins.
\* rec is the task object at the time of the call, p the provider handed to
\* executeAction, act the active map and tm the pending timers as the
\* caller left them.
Execute(id, rec, p, origin, act, tm) ==
     /\ calls' = [calls EXCEPT ![id] = @ + 1]
     /\ UNCHANGED <<provider, opened, browsers, handles>>
     /\ IF ~CheckAvailability(p, provider[p], now)
          THEN /\ task' = [task EXCEPT ![id] = AfterResult(rec, origin, FALSE, "Provider not available", now)]
               /\ failures' = [failures EXCEPT ![id] = @ + 1]
               /\ IF SchedulesRetry(rec, origin, FALSE)
                    THEN /\ timers' = tm \cup {[taskId |-> id, due |-> now + RetryDelay]}
                         /\ retryingReports' = [retryingReports EXCEPT ![id] = @ + 1]
                         /\ activeTasks' = act
                         /\ UNCHANGED <<taskHistory, evicted>>
                         /\ returned' = Nothing
                    ELSE /\ timers' = tm
                         /\ UNCHANGED retryingReports
                         /\ CompleteTask(id)
                         /\ returned' = Nothing
               /\ UNCHANGED call
          ELSE /\ task' = [task EXCEPT ![id] = rec]
               /\ activeTasks' = act
               /\ call' = [call EXCEPT ![id] =
                             [phase |-> "launching", origin |-> origin, provider |-> p,
                              session |-> SessionId(id, calls[id] + 1),
                              step |-> None, success |-> FALSE]]
               /\ timers' = tm
               /\ returned' = Nothing
               /\ UNCHANGED <<taskHistory, evicted, failures, retryingReports>>

\* Date.now() advances
Tick(d) ==
  /\ ticks < MaxTicks
  /\ ticks' = ticks + 1
  /\ now' = now + d
  /\ returned' = Nothing
  /\ UNCHANGED <<registry, provider, task, nextTask, activeTasks, taskHistory,
                 call, timers, browsers, handles, calls,
                 failures, retryingReports, cancelledOk, evicted, opened>>

\* performAction(videoUrl, actionType, options) up to its first wait
Submit(u, a, opt) ==
  /\ UNCHANGED <<now, ticks, registry, cancelledOk>>
  /\ IF ~ValidateVideoUrl(u)
       THEN /\ returned' = Return("performAction", 0, None, "Invalid TikTok video URL")
            /\ UNCHANGED <<provider, task, nextTask, activeTasks, taskHistory, call,
                           timers, browsers, handles, calls,
                           failures, retryingReports, evicted, opened>>
     ELSE IF a \notin GetAvailableActions
       THEN /\ returned' = Return("performAction", 0, None, "Invalid action type")
            /\ UNCHANGED <<provider, task, nextTask, activeTasks, taskHistory, call,
                           timers, browsers, handles, calls,
                           failures, retryingReports, evicted, opened>>
     ELSE /\ nextTask < MaxTasks
          /\ LET id == nextTask + 1
                 created == [NoTask EXCEPT !.status = "pending", !.createdAt = now,
                                           !.maxAttempts = MaxAttemptsOf(opt)]
                 p == FindAvailableProvider(now)
             IN /\ nextTask' = id
                /\ IF p = None
                     THEN /\ task' = [task EXCEPT ![id] =
                                        [created EXCEPT !.status = "failed",
                                                        !.error = "No available providers"]]
                          /\ CompleteTask(id)
                          /\ returned' = Return("performAction", id, None,
                                                "No available providers for this action")
                          /\ UNCHANGED <<provider, call, timers, browsers, handles,
                                         calls, failures, retryingReports, opened>>
                     ELSE Execute(id, [created EXCEPT !.provider = p, !.status = "running"],
                                  p, "performAction", activeTasks \cup {id}, timers)

\* browserManager.launchBrowser settles (setup.js 629-658), and with it, on
\* a failure, the catch and finally blocks of provider.performAction.
\* outcome: "ok"; "launchFail" when puppeteer.launch throws; "pageFail"
\* when newPage, setViewport or setUserAgent throws after the launch
LaunchDone(id, outcome) ==
  LET c == call[id]
  IN /\ c.phase = "launching"
     /\ UNCHANGED <<now, ticks, registry, nextTask, calls, cancelledOk>>
     /\ IF outcome = "ok"
          THEN /\ browsers' = [s \in DOMAIN browsers \cup {c.session} |->
                                 IF s = c.session THEN now ELSE browsers[s]]
               /\ handles' = Launched(handles, c.session, outcome)
               /\ call' = [call EXCEPT ![id].phase = "session"]
               /\ returned' = Nothing
               /\ UNCHANGED <<provider, task, activeTasks, taskHistory, timers,
                              failures, retryingReports, evicted, opened>>
          ELSE /\ ApplyStats(c.provider, FALSE)
               /\ IF ReleasedSession(c) = 0
                    THEN /\ UNCHANGED browsers
                         /\ handles' = Launched(handles, c.session, outcome)
                         /\ returned' = Nothing
                    ELSE LET r == CloseBrowser(browsers, Launched(handles, c.session, outcome),
                                               ReleasedSession(c), TRUE)
                         IN /\ browsers' = r.browsers
                            /\ handles' = r.handles
                            /\ returned' = Return("closeBrowser", ReleasedSession(c),
                                                  None, Str(r.value))
               /\ call' = [call EXCEPT ![id] = Idle]
               /\ Deliver(id, c.origin, FALSE, "launch failed", timers)

\* the steps of the interaction sequence of provider.performAction
\* (part_002 55-86): navigateToZefoy, selectAction, waitForActionForm,
\* submitVideoUrl, handleCaptcha, waitForActionCompletion
Steps == {"navigate", "select", "form", "submit", "captcha", "completion"}

\* what happens on the page: no step fails, or the named step does (the
\* page does not load, the endpoint is not reached, the form does not
\* appear, the URL cannot be submitted, the challenge is not resolved, no
\* completion signal shows up)
StepOutcomes == {"none"} \cup Steps

\* the outcomes the service specifications draw from: nothing fails, or a
\* step whose failure the provider reports
ReportedOutcomes == {"none", "select"}

\* whether the sequence runs to its end when step f fails: performAction
\* throws on a false answer of selectAction, submitVideoUrl and
\* handleCaptcha (59-80); navigateToZefoy swallows its error (150-156) and
\* its answer, like that of waitForActionForm, is not read (56, 65);
\* waitForActionCompletion answers true when no signal was found (365-368)
SequenceSucceeds(f) == f \notin {"select", "submit", "captcha"}

\* the interaction sequence on the page ends (part_002 53-123) with step f
\* failing, or none; then updateStats, and the finally block starts closing
\* the session
StepsDone(id, f) ==
  LET c == call[id]
      ok == SequenceSucceeds(f)
  IN /\ c.phase = "session"
     /\ ApplyStats(c.provider, ok)
     /\ call' = [call EXCEPT ![id].phase = "closing", ![id].step = f, ![id].success = ok]
     /\ returned' = Nothing
     /\ UNCHANGED <<now, ticks, registry, task, nextTask, activeTasks, taskHistory,
                    timers, browsers, handles, calls, failures,
                    retryingReports, cancelledOk, evicted>>

\* browserManager.closeBrowser settles (setup.js 674-700) and the Result
\* is returned to the orchestrator; outcome tells whether closing the page
\* and the browser went through
CloseDone(id, outcome) ==
  LET c == call[id]
      r == CloseBrowser(browsers, handles, c.session, outcome = "ok")
  IN /\ c.phase = "closing"
     /\ browsers' = r.browsers
     /\ handles' = r.handles
     /\ returned' = Return("closeBrowser", c.session, None, Str(r.value))
     /\ call' = [call EXCEPT ![id] = Idle]
     /\ Deliver(id, c.origin, c.success, "step failed", timers)
     /\ UNCHANGED <<now, ticks, registry, provider, nextTask, calls,
                    cancelledOk, opened>>

\* a retry that selects a provider again
RetryProviderReselected(id) ==
  IF FindAvailableProvider(now) = None THEN task[id].provider
  ELSE FindAvailableProvider(now)

\* the provider retryTask executes on: this.providers.get(task.provider)
RetryProvider(id) == task[id].provider

\* the setTimeout callback of performAction 1015-1017 runs retryTask
RetryFire(tm) ==
  LET id == tm.taskId
  IN /\ tm \in timers
     /\ tm.due <= now
     /\ UNCHANGED <<now, ticks, registry, nextTask, cancelledOk>>
     /\ IF ~RetryProceeds(id)
          THEN /\ timers' = timers \ {tm}
               /\ returned' = Nothing
               /\ UNCHANGED <<provider, task, activeTasks, taskHistory, call, browsers, handles,
                              calls, failures,
                              retryingReports, evicted, opened>>
          ELSE Execute(id, task[id], RetryProvider(id), "retryTask", activeTasks, timers \ {tm})

\* cancelTask looking the task up as getTaskStatus does, history included
CancelFindsAnywhere(id) ==
  id \in activeTasks \/ \E i \in 1..Len(taskHistory) : taskHistory[i] = id

\* cancelTask's lookup: this.activeTasks.get(taskId)
CancelFinds(id) == id \in activeTasks

\* cancelTask(taskId)
CancelTask(id) ==
  /\ UNCHANGED <<now, ticks, registry, provider, nextTask, call, timers, browsers, handles,
                 calls, failures, retryingReports, opened>>
  /\ IF ~CancelFinds(id)
       THEN /\ returned' = Return("cancelTask", id, None, "false")
            /\ UNCHANGED <<task, activeTasks, taskHistory, cancelledOk, evicted>>
       ELSE /\ task' = [task EXCEPT ![id].status = "cancelled", ![id].cancelledAt = now]
            /\ CompleteTask(id)
            /\ cancelledOk' = cancelledOk \cup {id}
            /\ returned' = Return("cancelTask", id, None, "true")

\* resetProviders()
ResetProviders ==
  /\ provider' = [p \in DOMAIN provider |-> ResetAvailability(provider[p])]
  /\ opened' = [p \in DOMAIN opened |-> FALSE]
  /\ returned' = Nothing
  /\ UNCHANGED <<now, ticks, registry, task, nextTask, activeTasks, taskHistory,
                 call, timers, browsers, handles, calls,
                 failures, retryingReports, cancelledOk, evicted>>

\* provider.checkAvailability() called on its own
CheckAvailabilityCall(p) ==
  /\ returned' = Return("checkAvailability", 0, p, Str(CheckAvailability(p, provider[p], now)))
  /\ UNCHANGED <<now, ticks, registry, provider, task, nextTask, activeTasks,
                 taskHistory, call, timers, browsers, handles,
                 calls, failures, retryingReports, cancelledOk, evicted, opened>>

Next ==
  \/ \E d \in TickSteps : Tick(d)
  \/ \E u \in Urls, a \in ActionTypes, opt \in {NoOverride} \cup (0..MaxOverride) : Submit(u, a, opt)
  \/ \E id \in TaskIds, outcome \in {"ok", "launchFail"} : LaunchDone(id, outcome)
  \/ \E id \in TaskIds, f \in ReportedOutcomes : StepsDone(id, f)
  \/ \E id \in TaskIds : CloseDone(id, "ok")
  \/ \E tm \in timers : RetryFire(tm)
  \/ \E id \in AnyIds : CancelTask(id)
  \/ ResetProviders

Spec == Init /\ [][Next]_vars

\* ---------------------------------------------------------------------
\* The provider objects on their own: two providers registered in either
\* order (zefoy, and freer as initializeProviders plans it), and their
\* methods called in any order, as concurrent executions call them.

InitProv ==
  /\ registry \in {<<"zefoy", "freer">>, <<"freer", "zefoy">>}
  /\ InitCommon

TaskVars == <<task, nextTask, activeTasks, taskHistory, call, timers, browsers, handles,
              calls, failures, retryingReports, cancelledOk, evicted>>

\* provider.updateStats(success) at the end of some execution
UpdateStatsCall(p, success) ==
  /\ provider[p].actionCount < MaxActions
  /\ ApplyStats(p, success)
  /\ returned' = Nothing
  /\ UNCHANGED <<now, ticks, registry, TaskVars>>

\* findAvailableProvider(actionType) called on its own
FindAvailableProviderCall ==
  /\ returned' = Return("findAvailableProvider", 0, FindAvailableProvider(now), None)
  /\ UNCHANGED <<now, ticks, registry, provider, opened, TaskVars>>

NextProv ==
  \/ \E d \in TickSteps : Tick(d)
  \/ \E p \in DOMAIN provider, success \in BOOLEAN : UpdateStatsCall(p, success)
  \/ ResetProviders
  \/ \E p \in DOMAIN provider : CheckAvailabilityCall(p)
  \/ FindAvailableProviderCall

SpecProv == InitProv /\ [][NextProv]_vars

\* ---------------------------------------------------------------------
\* The service while the clock stands still: submissions with every shape
\* of argument, the executions they start, and cancellations.

NextSubmit ==
  \/ \E r \in Requests, opt \in {NoOverride} \cup (0..MaxOverride) : Submit(r[1], r[2], opt)
  \/ \E id \in TaskIds, outcome \in {"ok", "launchFail"} : LaunchDone(id, outcome)
  \/ \E id \in TaskIds, f \in ReportedOutcomes : StepsDone(id, f)
  \/ \E id \in TaskIds : CloseDone(id, "ok")
  \/ \E id \in AnyIds : CancelTask(id)

SpecSubmit == Init /\ [][NextSubmit]_vars

\* ---------------------------------------------------------------------
\* The service with two providers registered, in either order: valid
\* submissions, their executions, retries and cancellations.

NextRetry ==
  \/ \E d \in TickSteps : Tick(d)
  \/ \E opt \in {NoOverride} \cup (0..MaxOverride) :
       Submit(CHOOSE u \in Urls : ValidateVideoUrl(u), "views", opt)
  \/ \E id \in TaskIds, outcome \in {"ok", "launchFail"} : LaunchDone(id, outcome)
  \/ \E id \in TaskIds, f \in ReportedOutcomes : StepsDone(id, f)
  \/ \E id \in TaskIds : CloseDone(id, "ok")
  \/ \E tm \in timers : RetryFire(tm)
  \/ \E id \in AnyIds : CancelTask(id)
  \/ ResetProviders

SpecRetry == InitProv /\ [][NextRetry]_vars

\* ---------------------------------------------------------------------
\* The sessions of the provider executions: valid submissions, their
\* executions and retries, with every outcome of the browser launch, of the
\* page interaction and of closing the page and the browser.  (The
\* specifications above take the page set-up and the closing to go
\* through: no caller reads what they leave behind.)

NextSession ==
  \/ \E d \in TickSteps : Tick(d)
  \/ \E opt \in {NoOverride} \cup (0..MaxOverride) :
       Submit(CHOOSE u \in Urls : ValidateVideoUrl(u), "views", opt)
  \/ \E id \in TaskIds, outcome \in {"ok", "launchFail", "pageFail"} : LaunchDone(id, outcome)
  \/ \E id \in TaskIds, f \in StepOutcomes : StepsDone(id, f)
  \/ \E id \in TaskIds, outcome \in {"ok", "closeFail"} : CloseDone(id, outcome)
  \/ \E tm \in timers : RetryFire(tm)

SpecSession == Init /\ [][NextSession]_vars

\* ---------------------------------------------------------------------
\* The service under fair scheduling: every provider call in flight
\* eventually returns (the launch settles, the page sequence ends, the
\* close settles), the delay of every pending retry timer eventually goes
\* by, and a timer that is due eventually fires.

\* time passes until the pending timer tm is due
TimerElapses(tm) ==
  /\ tm \in timers
  /\ tm.due > now
  /\ now' = tm.due
  /\ returned' = Nothing
  /\ UNCHANGED <<ticks, registry, provider, task, nextTask, activeTasks, taskHistory,
                 call, timers, browsers, handles, calls,
                 failures, retryingReports, cancelledOk, evicted, opened>>

NextLive ==
  \/ \E opt \in {NoOverride} \cup (0..MaxOverride) :
       Submit(CHOOSE u \in Urls : ValidateVideoUrl(u), "views", opt)
  \/ \E id \in TaskIds, outcome \in {"ok", "launchFail"} : LaunchDone(id, outcome)
  \/ \E id \in TaskIds, f \in ReportedOutcomes : StepsDone(id, f)
  \/ \E id \in TaskIds : CloseDone(id, "ok")
  \/ \E tm \in timers : TimerElapses(tm)
  \/ \E tm \in timers : RetryFire(tm)
  \/ \E id \in AnyIds : CancelTask(id)

Fairness ==
  /\ \A id \in TaskIds : WF_vars(\E outcome \in {"ok", "launchFail"} : LaunchDone(id, outcome))
  /\ \A id \in TaskIds : WF_vars(\E f \in ReportedOutcomes : StepsDone(id, f))
  /\ \A id \in TaskIds : WF_vars(CloseDone(id, "ok"))
  /\ WF_vars(\E tm \in timers : TimerElapses(tm))
  /\ WF_vars(\E tm \in timers : RetryFire(tm))

SpecLive == Init /\ [][NextLive]_vars /\ Fairness

\* ---------------------------------------------------------------------
\* The browser manager on its own: sessions are launched, their browser
\* processes may exit, they are queried, closed and swept, while the clock
\* moves around the session timeout.

SessionIds == 1..MaxSessions

\* the clock moves by a millisecond or by just under the session timeout
SessionSteps == {1, SessionTimeout - 1}

ServiceVars == <<registry, provider, task, nextTask, activeTasks, taskHistory, call,
                 timers, calls, failures, retryingReports, cancelledOk, evicted, opened>>

SessionTick(d) ==
  /\ ticks < MaxSessionTicks
  /\ ticks' = ticks + 1
  /\ now' = now + d
  /\ returned' = Nothing
  /\ UNCHANGED <<browsers, handles, ServiceVars>>

\* the sessions of b that have reached the session timeout at time t
\* (setup.js 848-852)
ExpiredSessions(b, t) == {s \in DOMAIN b : t - b[s] >= SessionTimeout}

\* an expiry test that needs the timeout to be exceeded
IsBrowserValidInclusive(b, h, s, t) ==
  IF s \notin DOMAIN b THEN "false"
  ELSE IF h[s] # "live" THEN "null"
  ELSE Str(t - b[s] <= SessionTimeout)

\* isBrowserValid(sessionId) at time t: the value of the && chain, which is
\* null for a browser without a process
IsBrowserValid(b, h, s, t) ==
  IF s \notin DOMAIN b THEN "false"
  ELSE IF h[s] # "live" THEN "null"
  ELSE Str(t - b[s] < SessionTimeout)

\* launchBrowser(s) from call to settlement, for a session id not in use
LaunchBrowserCall(s, outcome) ==
  /\ s \notin DOMAIN browsers \cup DOMAIN handles
  /\ browsers' = IF outcome = "ok"
                   THEN [x \in DOMAIN browsers \cup {s} |-> IF x = s THEN now ELSE browsers[x]]
                   ELSE browsers
  /\ handles' = Launched(handles, s, outcome)
  /\ returned' = Return("launchBrowser", s, None, outcome)
  /\ UNCHANGED <<now, ticks, ServiceVars>>

\* the browser process of session s exits
ProcessExits(s) ==
  /\ s \in DOMAIN handles
  /\ handles[s] = "live"
  /\ handles' = [handles EXCEPT ![s] = "dead"]
  /\ returned' = Nothing
  /\ UNCHANGED <<now, ticks, browsers, ServiceVars>>

\* closeBrowser(s) called on its own
CloseBrowserCall(s, ok) ==
  LET r == CloseBrowser(browsers, handles, s, ok)
  IN /\ browsers' = r.browsers
     /\ handles' = r.handles
     /\ returned' = Return("closeBrowser", s, None, Str(r.value))
     /\ UNCHANGED <<now, ticks, ServiceVars>>

IsBrowserValidCall(s) ==
  /\ returned' = Return("isBrowserValid", s, None, IsBrowserValid(browsers, handles, s, now))
  /\ UNCHANGED <<now, ticks, browsers, handles, ServiceVars>>

\* closeBrowser for each session of the set todo; failing are the sessions
\* whose page or browser refuses to close
RECURSIVE CloseEach(_, _, _, _)
CloseEach(b, h, todo, failing) ==
  IF todo = {} THEN [browsers |-> b, handles |-> h]
  ELSE LET s == CHOOSE x \in todo : TRUE
           r == CloseBrowser(b, h, s, s \notin failing)
       IN CloseEach(r.browsers, r.handles, todo \ {s}, failing)

\* cleanupExpiredSessions() from call to settlement
CleanupExpiredSessionsCall(failing) ==
  LET expiredSessions == ExpiredSessions(browsers, now)
      r == CloseEach(browsers, handles, expiredSessions, failing)
  IN /\ failing \subseteq expiredSessions
     /\ browsers' = r.browsers
     /\ handles' = r.handles
     /\ returned' = Return("cleanupExpiredSessions", 0, None, Cardinality(expiredSessions))
     /\ UNCHANGED <<now, ticks, ServiceVars>>

NextBrowser ==
  \/ \E d \in SessionSteps : SessionTick(d)
  \/ \E s \in SessionIds, outcome \in {"ok", "launchFail", "pageFail"} : LaunchBrowserCall(s, outcome)
  \/ \E s \in SessionIds : ProcessExits(s)
  \/ \E s \in SessionIds, ok \in BOOLEAN : CloseBrowserCall(s, ok)
  \/ \E s \in SessionIds : IsBrowserValidCall(s)
  \/ \E failing \in SUBSET SessionIds : CleanupExpiredSessionsCall(failing)

SpecBrowser == Init /\ [][NextBrowser]_vars

\* ---------------------------------------------------------------------
\* The service while the clock stands still, with its status query: valid
\* submissions, their executions, cancellations and getTaskStatus.

\* a lookup that reads the history alone
GetTaskStatusHistoryOnly(active, h, id) ==
  IF \E i \in 1..Len(h) : h[i] = id
    THEN h[CHOOSE i \in 1..Len(h) : h[i] = id /\ \A j \in 1..(i - 1) : h[j] # id]
    ELSE 0

\* getTaskStatus(taskId): the id of the task object it returns, 0 for null.
\* The active store is read first, then the first history entry with the id.
GetTaskStatus(active, h, id) ==
  IF id \in active THEN id
  ELSE IF \E i \in 1..Len(h) : h[i] = id
    THEN h[CHOOSE i \in 1..Len(h) : h[i] = id /\ \A j \in 1..(i - 1) : h[j] # id]
    ELSE 0

GetTaskStatusCall(id) ==
  /\ returned' = Return("getTaskStatus", id, None, GetTaskStatus(activeTasks, taskHistory, id))
  /\ UNCHANGED <<now, ticks, registry, provider, task, nextTask, activeTasks,
                 taskHistory, call, timers, browsers, handles,
                 calls, failures, retryingReports, cancelledOk, evicted, opened>>

NextStatus ==
  \/ \E opt \in {NoOverride} \cup (0..MaxOverride) :
       Submit(CHOOSE u \in Urls : ValidateVideoUrl(u), "views", opt)
  \/ \E id \in TaskIds, outcome \in {"ok", "launchFail"} : LaunchDone(id, outcome)
  \/ \E id \in TaskIds, f \in ReportedOutcomes : StepsDone(id, f)
  \/ \E id \in TaskIds : CloseDone(id, "ok")
  \/ \E id \in AnyIds : CancelTask(id)
  \/ \E id \in AnyIds : GetTaskStatusCall(id)

SpecStatus == Init /\ [][NextStatus]_vars

\* ---------------------------------------------------------------------
\* The service while the clock stands still, with its history query.

\* the limits a caller passes: none, some, all and more than all the
\* records the history can hold
Limits == 0..(HistoryLimit + 1)

\* Array.prototype.slice(start) on a sequence: a negative start counts from
\* the end, and -0 is 0
Slice(h, start) ==
  LET from == IF start < 0
                THEN (IF Len(h) + start > 0 THEN Len(h) + start ELSE 0)
                ELSE (IF start < Len(h) THEN start ELSE Len(h))
  IN SubSeq(h, from + 1, Len(h))

\* getTaskHistory(limit): this.taskHistory.slice(-limit)
GetTaskHistory(h, limit) == Slice(h, 0 - limit)

GetTaskHistoryCall(limit) ==
  /\ returned' = Return("getTaskHistory", limit, None, GetTaskHistory(taskHistory, limit))
  /\ UNCHANGED <<now, ticks, registry, provider, task, nextTask, activeTasks,
                 taskHistory, call, timers, browsers, handles,
                 calls, failures, retryingReports, cancelledOk, evicted, opened>>

NextHistory ==
  \/ \E opt \in {NoOverride} \cup (0..MaxOverride) :
       Submit(CHOOSE u \in Urls : ValidateVideoUrl(u), "views", opt)
  \/ \E id \in TaskIds, outcome \in {"ok", "launchFail"} : LaunchDone(id, outcome)
  \/ \E id \in TaskIds, f \in ReportedOutcomes : StepsDone(id, f)
  \/ \E id \in TaskIds : CloseDone(id, "ok")
  \/ \E id \in AnyIds : CancelTask(id)
  \/ \E limit \in Limits : GetTaskHistoryCall(limit)

SpecHistory == Init /\ [][NextHistory]_vars

\* ---------------------------------------------------------------------
\* The service with its shutdown: valid submissions, their executions and
\* retries, cancellations, and cleanup() at any moment.

\* a cleanup that cancels only the tasks whose call is in flight
CleanupTargetsRunning(act) == {id \in act : task[id].status = "running"}

\* the tasks cleanup() cancels: this.activeTasks.keys()
CleanupTargets(act) == act

\* cancelTask for each task of todo in the order of the map, which is the
\* order of creation; st is the record of the task store, the active map,
\* the history and the tasks it has dropped
RECURSIVE CancelEach(_, _)
CancelEach(st, todo) ==
  IF todo = {} THEN st
  ELSE LET id == CHOOSE x \in todo : \A y \in todo : x <= y
       IN CancelEach(
            [task |-> [st.task EXCEPT ![id].status = "cancelled", ![id].cancelledAt = now],
             active |-> st.active \ {id},
             history |-> PushHistory(st.history, id),
             evicted |-> st.evicted \cup Dropped(st.history, id)],
            todo \ {id})

\* cleanup()
Cleanup ==
  LET r == CancelEach([task |-> task, active |-> activeTasks,
                       history |-> taskHistory, evicted |-> evicted],
                      CleanupTargets(activeTasks))
  IN /\ task' = r.task
     /\ activeTasks' = r.active
     /\ taskHistory' = r.history
     /\ evicted' = r.evicted
     /\ cancelledOk' = cancelledOk \cup CleanupTargets(activeTasks)
     /\ returned' = Return("cleanup", 0, None, None)
     /\ UNCHANGED <<now, ticks, registry, provider, nextTask, call, timers, browsers,
                    handles, calls, failures, retryingReports, opened>>

NextCleanup ==
  \/ \E opt \in {NoOverride} \cup (0..MaxOverride) :
       Submit(CHOOSE u \in Urls : ValidateVideoUrl(u), "views", opt)
  \/ \E id \in TaskIds, outcome \in {"ok", "launchFail"} : LaunchDone(id, outcome)
  \/ \E id \in TaskIds, f \in ReportedOutcomes : StepsDone(id, f)
  \/ \E id \in TaskIds : CloseDone(id, "ok")
  \/ \E tm \in timers : TimerElapses(tm)
  \/ \E tm \in timers : RetryFire(tm)
  \/ \E id \in AnyIds : CancelTask(id)
  \/ Cleanup

SpecCleanup == Init /\ [][NextCleanup]_vars

\* getStats().tasks: the sizes of the two stores and the history entries
\* counted by status
GetStats ==
  LET count(st) == Cardinality({i \in 1..Len(taskHistory) : task[taskHistory[i]].status = st})
  IN [active |-> Cardinality(activeTasks),
      total |-> Len(taskHistory) + Cardinality(activeTasks),
      completed |-> count("completed"),
      failed |-> count("failed"),
      cancelled |-> count("cancelled")]

TypeOK ==
  /\ now \in Epoch..(Epoch + MaxTicks * ZefoyDelay)
  /\ nextTask \in 0..MaxTasks
  /\ activeTasks \subseteq 1..nextTask
  /\ \A i \in 1..Len(taskHistory) : taskHistory[i] \in 1..nextTask
  /\ Len(taskHistory) <= HistoryLimit


\* ---------------------------------------------------------------------
\* Properties

Terminal == {"completed", "failed", "cancelled"}
Created == 1..nextTask
InHistory(id) == \E i \in 1..Len(taskHistory) : taskHistory[i] = id
Occurrences(id) == Cardinality({i \in 1..Len(taskHistory) : taskHistory[i] = id})
TimerPending(id) == \E tm \in timers : tm.taskId = id

\* C1: a task whose provider execution fails on every attempt enters
\* status retrying exactly maxAttempts - 1 times and then rests in failed
\* with attempts = maxAttempts.
C1_RetryBound ==
  \A id \in Created :
    ( /\ task[id].status = "failed"
      /\ task[id].provider # None
      /\ id \notin cancelledOk
      /\ id \notin activeTasks
      /\ call[id].phase = "idle" )
    => /\ retryingReports[id] = task[id].maxAttempts - 1
       /\ task[id].attempts = task[id].maxAttempts

\* C2: every created task of which no record was evicted is in exactly one
\* of the active store and the history, and occurs at most once in the
\* history.
C2_OneStore ==
  \A id \in Created :
    id \notin evicted =>
      /\ (id \in activeTasks) # InHistory(id)
      /\ Occurrences(id) <= 1

\* C3: once the status of a task is completed, failed or cancelled it never
\* changes again.
C3_TerminalStable ==
  [][\A id \in TaskIds :
       task[id].status \in Terminal => task'[id].status = task[id].status]_vars

\* C4: once cancelTask has returned true for a task, no provider call is
\* started for it any more and it is never in the active store again.
C4_CancelStopsCalls ==
  [][\A id \in cancelledOk :
       /\ calls'[id] = calls[id]
       /\ id \notin activeTasks'
       /\ (call[id].phase = "idle" => call'[id].phase = "idle")]_vars

\* a task cancelled while its first execution was in flight; the execution
\* failed, scheduled a retry, and the retry timer has fired
C4_Witness ==
  \E id \in cancelledOk :
    /\ retryingReports[id] = 1
    /\ task[id].status = "retrying"
    /\ ~TimerPending(id)
    /\ calls[id] = 1

\* C5: a retry timer that fires for a task that is not in the active store
\* in status retrying changes no task, store, provider, session or call.
C5_StaleRetryNoop ==
  [][\A tm \in timers :
       ( /\ tm \notin timers'
         /\ ~(tm.taskId \in activeTasks /\ task[tm.taskId].status = "retrying") )
       => UNCHANGED <<task, activeTasks, taskHistory, provider, browsers, call, calls>>]_vars

\* a task cancelled while it waited for its retry; the timer has fired
C5_Witness ==
  \E id \in cancelledOk :
    /\ retryingReports[id] = 1
    /\ task[id].status = "cancelled"
    /\ ~TimerPending(id)
    /\ calls[id] = 1

\* C6: cancelTask returns true exactly when the task is in the active
\* store, and then the task is cancelled, stamped and moved to the end of
\* the history; otherwise it returns false and changes nothing; a second
\* cancel of the same task returns false.
C6_CancelContract ==
  [][returned'.op = "cancelTask" =>
       LET id == returned'.id
       IN /\ (returned'.value = "true") <=> (id \in activeTasks)
          /\ id \in cancelledOk => returned'.value = "false"
          /\ id \in activeTasks =>
               /\ task'[id] = [task[id] EXCEPT !.status = "cancelled", !.cancelledAt = now]
               /\ \A other \in TaskIds \ {id} : task'[other] = task[other]
               /\ activeTasks' = activeTasks \ {id}
               /\ taskHistory' # <<>>
               /\ taskHistory'[Len(taskHistory')] = id
          /\ id \notin activeTasks =>
               UNCHANGED <<task, activeTasks, taskHistory, provider, call, timers, browsers>>]_vars

\* the second cancel of a task has just returned false
C6_Witness ==
  /\ returned.op = "cancelTask"
  /\ returned.value = "false"
  /\ returned.id \in cancelledOk

\* C7: when a failed updateStats brings errorCount to the threshold,
\* isAvailable is false from that step on and checkAvailability answers
\* false until a reset.
C7_CircuitOpens ==
  \A p \in DOMAIN provider :
    /\ provider[p].errorCount >= MaxRetries => ~provider[p].isAvailable
    /\ opened[p] => ~provider[p].isAvailable
    /\ opened[p] => ~CheckAvailability(p, provider[p], now)
    /\ (opened[p] /\ returned.op = "checkAvailability" /\ returned.prov = p)
         => returned.value = "false"

\* the circuit is open, the inter-action delay has gone by, and
\* checkAvailability has just answered
C7_Witness ==
  \E p \in DOMAIN provider :
    /\ opened[p]
    /\ provider[p].errorCount >= MaxRetries
    /\ now - provider[p].lastActionTime >= BetweenActions(p)
    /\ returned.op = "checkAvailability"
    /\ returned.prov = p

\* C8: isAvailable goes from false to true only in a reset, which leaves
\* actionCount and lastActionTime alone and zeroes errorCount.
C8_OnlyResetRestores ==
  [][\A p \in DOMAIN provider :
       (~provider[p].isAvailable /\ provider'[p].isAvailable) =>
         /\ provider'[p].actionCount = provider[p].actionCount
         /\ provider'[p].lastActionTime = provider[p].lastActionTime
         /\ provider'[p].errorCount = 0
         /\ now' = now]_vars

\* an execution that was in flight when the circuit opened has succeeded:
\* errorCount is back to 0 and the circuit is still open
C8_Witness ==
  \E p \in DOMAIN provider :
    /\ opened[p]
    /\ ~provider[p].isAvailable
    /\ provider[p].errorCount = 0
    /\ provider[p].actionCount >= MaxRetries + 1

\* C9: checkAvailability answers true exactly when isAvailable holds and
\* the inter-action delay has gone by since lastActionTime, and it changes
\* no provider field.
C9_CheckAvailability ==
  [][returned'.op = "checkAvailability" =>
       LET p == returned'.prov
       IN /\ (returned'.value = "true") <=>
               ( /\ provider[p].isAvailable
                 /\ now - provider[p].lastActionTime >= BetweenActions(p) )
          /\ provider' = provider
          /\ now' = now]_vars

\* checkAvailability has answered true exactly at the end of the delay
C9_Witness ==
  /\ returned.op = "checkAvailability"
  /\ returned.value = "true"
  /\ provider[returned.prov].actionCount > 0
  /\ now - provider[returned.prov].lastActionTime = BetweenActions(returned.prov)

\* the providers that pass the availability test, stated on the fields
Eligible ==
  {p \in DOMAIN provider :
     provider[p].isAvailable /\ now - provider[p].lastActionTime >= BetweenActions(p)}

\* C10: the provider selected is available and no available provider has a
\* smaller errorCount, whatever the registration order.
C10_MinErrorCount ==
  [][returned'.op = "findAvailableProvider" =>
       /\ (returned'.prov = None) <=> (Eligible = {})
       /\ returned'.prov # None =>
            /\ returned'.prov \in Eligible
            /\ \A q \in Eligible :
                 provider[returned'.prov].errorCount <= provider[q].errorCount]_vars

\* two available providers with different error counts, and the one
\* registered second has been selected
C10_Witness ==
  /\ returned.op = "findAvailableProvider"
  /\ Cardinality(Eligible) = 2
  /\ returned.prov = registry[2]
  /\ provider[registry[2]].errorCount < provider[registry[1]].errorCount

\* C11: among the available providers with the same errorCount as the
\* provider selected, none has been idle longer, i.e. none has a smaller
\* lastActionTime.
C11_IdleLongest ==
  [][(returned'.op = "findAvailableProvider" /\ returned'.prov # None) =>
       \A q \in Eligible :
         provider[q].errorCount = provider[returned'.prov].errorCount =>
           provider[returned'.prov].lastActionTime <= provider[q].lastActionTime]_vars

\* position of provider q in the registration order
RegistrationIndex(q) == CHOOSE i \in 1..Len(registry) : registry[i] = q

C13_NoProvider ==
  [][/\ (nextTask' = nextTask + 1 /\ Eligible = {}) =>
          LET id == nextTask'
          IN /\ returned' = Return("performAction", id, None,
                                   "No available providers for this action")
             /\ task'[id].status = "failed"
             /\ task'[id].error = "No available providers"
             /\ task'[id].attempts = 0
             /\ task'[id].provider = None
             /\ id \notin activeTasks'
             /\ taskHistory' # <<>>
             /\ taskHistory'[Len(taskHistory')] = id
             /\ UNCHANGED <<provider, browsers, timers, call, calls>>
     /\ \A id \in Created :
          task[id].provider = None =>
            /\ task'[id] = task[id]
            /\ calls'[id] = 0
            /\ call'[id].phase = "idle"
            /\ id \notin activeTasks'
            /\ \A tm \in timers' : tm.taskId # id]_vars

\* a submission has just been answered with the no-provider report while
\* the only provider was inside its inter-action delay
C13_Witness ==
  /\ returned.op = "performAction"
  /\ returned.value = "No available providers for this action"
  /\ task[returned.id].status = "failed"
  /\ task[returned.id].attempts = 0
  /\ InHistory(returned.id)
  /\ \E p \in DOMAIN provider :
       provider[p].isAvailable /\ now - provider[p].lastActionTime < BetweenActions(p)

\* the overrides a caller passes as options.maxAttempts
Overrides == {NoOverride} \cup (0..MaxOverride)

\* the video URL argument is empty, null or undefined, not a string, of a
\* scheme other than http and https, or of a host other than the three
\* TikTok hosts, stated on its parts
BadTarget(u) ==
  \/ u.kind \in {"empty", "nullish", "number"}
  \/ u.scheme \notin {"http", "https"}
  \/ u.host \notin {"tiktok.com", "vm.tiktok.com", "vt.tiktok.com"}

\* C14: performAction called with a target that is empty, null or
\* undefined, not a string, of a wrong scheme or of a non-TikTok domain, or
\* with an action type outside the six permitted ones, is rejected before
\* any task is created: no task, store, provider statistic, session, call
\* or timer changes.
C14_RejectInvalid ==
  [][/\ \A r \in Requests, opt \in Overrides :
          ( /\ \/ BadTarget(r[1])
               \/ r[2] \notin {"views", "likes", "shares", "favorites", "followers", "comments"}
            /\ Submit(r[1], r[2], opt) )
          => /\ returned'.op = "performAction"
             /\ returned'.id = 0
             /\ returned'.value \in {"Invalid TikTok video URL", "Invalid action type"}
             /\ UNCHANGED <<task, nextTask, activeTasks, taskHistory, provider,
                            browsers, call, calls, timers>>
     /\ (returned'.op = "performAction" /\ returned'.id = 0)
          => UNCHANGED <<task, nextTask, activeTasks, taskHistory, provider,
                         browsers, call, calls, timers>>]_vars

\* a submission has just been rejected for its target while one task was
\* running with an open session and another waited for its retry
C14_Witness ==
  /\ returned.op = "performAction"
  /\ returned.value = "Invalid TikTok video URL"
  /\ \E id \in activeTasks : call[id].phase = "session"
  /\ timers # {}
  /\ DOMAIN browsers # {}

\* C15: a submission with a valid target and a permitted action type
\* creates exactly one task, under an id no task had, with attempts 0,
\* registered in the active store once a provider is bound, and with
\* maxAttempts equal to the override when one is supplied (0 included) and
\* to the configured default otherwise.
C15_SubmitCreates ==
  [][\A r \in Requests, opt \in Overrides :
       ( /\ ~BadTarget(r[1])
         /\ r[1].path
         /\ r[2] \in {"views", "likes", "shares", "favorites", "followers", "comments"}
         /\ Submit(r[1], r[2], opt) )
       => /\ nextTask' = nextTask + 1
          /\ task[nextTask'] = NoTask
          /\ \A other \in TaskIds \ {nextTask'} : task'[other] = task[other]
          /\ task'[nextTask'].attempts = 0
          /\ task'[nextTask'].createdAt = now
          /\ task'[nextTask'].provider # None =>
               /\ nextTask' \in activeTasks'
               /\ task'[nextTask'].status = "running"
          /\ task'[nextTask'].maxAttempts = IF opt = NoOverride THEN MaxRetries ELSE opt]_vars

\* C16: the history never holds more than HistoryLimit records; a task
\* that a step brings to a terminal status is appended by that step, at the
\* end when the history is not full, and otherwise evicting exactly the
\* oldest record and leaving the others in their order; the history
\* changes in no other way.
C16_BoundedFifo ==
  [][/\ Len(taskHistory) <= HistoryLimit
     /\ Len(taskHistory') <= HistoryLimit
     /\ \A id \in TaskIds :
          (task'[id] # task[id] /\ task'[id].status \in Terminal) =>
            taskHistory' = IF Len(taskHistory) < HistoryLimit
                             THEN Append(taskHistory, id)
                             ELSE Append(Tail(taskHistory), id)
     /\ taskHistory' # taskHistory =>
          \E id \in TaskIds :
            /\ task'[id].status \in Terminal
            /\ taskHistory' = IF Len(taskHistory) < HistoryLimit
                                THEN Append(taskHistory, id)
                                ELSE Append(Tail(taskHistory), id)]_vars

\* the history is full and a record has been evicted from it
C16_Witness ==
  /\ Len(taskHistory) = HistoryLimit
  /\ evicted # {}

\* C17: the records of the history are in the order of their tasks'
\* creation times: createdAt never decreases from the oldest record to the
\* newest.
C17_CreationOrder ==
  \A i, j \in 1..Len(taskHistory) :
    i < j => task[taskHistory[i]].createdAt <= task[taskHistory[j]].createdAt

\* C18: the provider of a task never changes once it is set; every
\* execution in flight for a task runs on the provider the task is bound
\* to; a retry whose bound provider fails the availability test fails at
\* once with no execution started, whatever other provider is available.
C18_StickyProvider ==
  [][\A id \in TaskIds :
       /\ task[id].provider # None => task'[id].provider = task[id].provider
       /\ call'[id].phase # "idle" => call'[id].provider = task'[id].provider
       /\ ( /\ calls'[id] = calls[id] + 1
            /\ task[id].provider # None
            /\ task[id].provider \notin Eligible )
          => /\ call'[id].phase = "idle"
             /\ UNCHANGED <<provider, browsers>>
             /\ task'[id].status = "failed"
             /\ task'[id].error = "Provider not available"]_vars

\* a retry has failed at once on its bound provider, which is inside its
\* inter-action delay, while the other provider is available
C18_Witness ==
  \E id \in Created :
    /\ calls[id] = 2
    /\ retryingReports[id] = 1
    /\ task[id].status = "failed"
    /\ task[id].error = "Provider not available"
    /\ task[id].provider \notin Eligible
    /\ Eligible # {}

\* C19: the step in which a provider execution that minted a session id
\* returns its Result is one in which closeBrowser has settled for that
\* session id, whether the execution succeeded, failed a step or failed
\* to launch.
C19_ReleaseAlways ==
  [][\A id \in TaskIds :
       (call[id].phase # "idle" /\ call'[id].phase = "idle") =>
         /\ returned'.op = "closeBrowser"
         /\ returned'.id = call[id].session]_vars

\* an execution whose browser launch failed has returned its Result, after
\* closeBrowser answered false for its session id
C19_Witness ==
  /\ returned.op = "closeBrowser"
  /\ returned.value = "false"
  /\ returned.id \notin DOMAIN browsers
  /\ \E id \in Created :
       /\ returned.id = SessionId(id, calls[id])
       /\ call[id].phase = "idle"
       /\ task[id].error = "launch failed"

\* C20: closeBrowser(sessionId) returns true exactly when the session was
\* registered, and afterwards the session is not registered, also when
\* closing the page or the browser fails.
C20_ReleaseContract ==
  [][returned'.op = "closeBrowser" =>
       /\ (returned'.value = "true") <=> (returned'.id \in DOMAIN browsers)
       /\ returned'.id \notin DOMAIN browsers']_vars

\* C21: whenever no provider execution is in flight, no session is
\* registered and no browser process that a launch started is still
\* open.
C21_NoSessionLeak ==
  (\A id \in TaskIds : call[id].phase = "idle") =>
    /\ DOMAIN browsers = {}
    /\ \A s \in DOMAIN handles : handles[s] # "live"

\* C22: when a step of the interaction sequence fails, the execution
\* ends as a failure: updateStats(false) is applied and the Result returned
\* has success = false.
C22_StepFailureReported ==
  [][\A id \in TaskIds :
       ( /\ call[id].phase = "session"
         /\ call'[id].phase = "closing"
         /\ call'[id].step # "none" )
       => /\ ~call'[id].success
          /\ provider'[call[id].provider].errorCount
               = provider[call[id].provider].errorCount + 1]_vars

\* C23: an execution that ends in a failure (the launch fails, the page
\* set-up or a step throws) reaches the orchestrator as a failure Result:
\* attempts is incremented and the task is retrying with a timer pending,
\* or failed and in the history; an execution that succeeded completes the
\* task; neither depends on whether closing the session went through.
C23_FailureIsResult ==
  [][\A id \in TaskIds :
       (call[id].phase # "idle" /\ call'[id].phase = "idle") =>
         IF call[id].phase = "closing" /\ call[id].success
           THEN /\ task'[id].status = "completed"
                /\ task'[id].attempts = task[id].attempts
                /\ failures'[id] = failures[id]
           ELSE /\ task'[id].attempts = task[id].attempts + 1
                /\ failures'[id] = failures[id] + 1
                /\ task'[id].status \in {"retrying", "failed"}
                /\ task'[id].status = "retrying" => \E tm \in timers' : tm.taskId = id
                /\ task'[id].status = "failed" =>
                     \E i \in 1..Len(taskHistory') : taskHistory'[i] = id]_vars

\* closing the session of a successful execution has just failed and its
\* task is completed, while another task has had a failed launch counted
C23_Witness ==
  /\ returned.op = "closeBrowser"
  /\ returned.value = "false"
  /\ returned.id \in DOMAIN browsers
  /\ \E id \in Created :
       /\ returned.id = SessionId(id, calls[id])
       /\ call[id].phase = "idle"
       /\ task[id].status = "completed"
  /\ \E id \in Created :
       /\ task[id].error = "launch failed"
       /\ task[id].attempts >= 1

\* C24: when an execution returns success for a task that cancelTask has
\* not cancelled, the task becomes completed with completedAt and result
\* set, leaves the active store for the end of the history, and its
\* attempts is the number of failed executions before the success.
C24_SuccessCompletes ==
  [][\A id \in TaskIds \ cancelledOk :
       ( /\ call[id].phase = "closing"
         /\ call[id].success
         /\ call'[id].phase = "idle" )
       => /\ task'[id].status = "completed"
          /\ task'[id].completedAt = now
          /\ task'[id].result = "success"
          /\ id \notin activeTasks'
          /\ taskHistory' # <<>>
          /\ taskHistory'[Len(taskHistory')] = id
          /\ task'[id].attempts = failures[id]
          /\ task'[id].attempts = calls[id] - 1]_vars

\* a task completed by its retry, after one failed execution
C24_Witness ==
  \E id \in Created \ cancelledOk :
    /\ task[id].status = "completed"
    /\ task[id].attempts = 1
    /\ failures[id] = 1
    /\ calls[id] = 2
    /\ call[id].phase = "idle"
    /\ InHistory(id)

\* C25: whenever a provider call is in flight for a task that is in the
\* active store, the status of the task is running.
C25_RunningWhileInFlight ==
  \A id \in activeTasks :
    call[id].phase # "idle" => task[id].status = "running"

\* C26: under fair scheduling every task that was created is, from some
\* point on and for ever, out of the active store with a terminal status:
\* none stays pending, running or retrying for ever.
C26_EventuallyTerminal ==
  \A id \in TaskIds :
    [](nextTask >= id =>
         <>[](id \notin activeTasks /\ task[id].status \in Terminal))

\* C27: resetProviders makes every registered provider available with an
\* error count of zero, keeps its action count and last action time, and
\* changes no task, timer or session; right after it a provider passes
\* checkAvailability exactly when its inter-action delay since the last
\* action time has gone by.
C27_ResetFrame ==
  [][ResetProviders =>
       /\ \A i \in 1..Len(registry) :
            LET p == registry[i] IN
              /\ provider'[p].isAvailable
              /\ provider'[p].errorCount = 0
              /\ provider'[p].actionCount = provider[p].actionCount
              /\ provider'[p].lastActionTime = provider[p].lastActionTime
              /\ CheckAvailability(p, provider'[p], now')
                   <=> (now - provider[p].lastActionTime >= BetweenActions(p))
       /\ UNCHANGED <<task, nextTask, activeTasks, taskHistory, call, timers,
                      browsers, handles, now>>]_vars

\* every execution so far has failed, often enough to open the circuit, and
\* the provider is available again with no error counted, while a retry is
\* still pending
C27_Witness ==
  \E p \in DOMAIN provider :
    /\ provider[p].isAvailable
    /\ provider[p].errorCount = 0
    /\ provider[p].actionCount >= MaxRetries
    /\ provider[p].lastActionTime > 0
    /\ \A id \in TaskIds : failures[id] = calls[id]
    /\ timers # {}

\* C28: isBrowserValid answers true exactly for a registered session whose
\* browser process is live and whose age is below the session timeout, and
\* it leaves every session, expired or not, registered and open.
C28_IsValid ==
  [][returned'.op = "isBrowserValid" =>
       LET s == returned'.id IN
         /\ (returned'.value = "true")
              <=> ( /\ s \in DOMAIN browsers
                    /\ handles[s] = "live"
                    /\ now - browsers[s] < SessionTimeout )
         /\ UNCHANGED <<browsers, handles>>]_vars

\* a session that is exactly as old as the timeout was found invalid and
\* is still registered with its browser process live
C28_Witness ==
  /\ returned.op = "isBrowserValid"
  /\ returned.value = "false"
  /\ returned.id \in DOMAIN browsers
  /\ handles[returned.id] = "live"
  /\ now - browsers[returned.id] = SessionTimeout

\* C29: cleanupExpiredSessions leaves no session registered that has reached
\* the session timeout, leaves every younger session as it was, closes the
\* processes of the sessions it unregisters and returns the number of
\* sessions it released.
C29_CleanupReleasesExpired ==
  [][returned'.op = "cleanupExpiredSessions" =>
       LET released == DOMAIN browsers \ DOMAIN browsers' IN
         /\ ExpiredSessions(browsers', now') = {}
         /\ released = ExpiredSessions(browsers, now)
         /\ \A s \in DOMAIN browsers \ ExpiredSessions(browsers, now) :
              /\ s \in DOMAIN browsers'
              /\ browsers'[s] = browsers[s]
              /\ handles'[s] = handles[s]
         /\ \A s \in released : s \notin DOMAIN handles'
         /\ returned'.value = Cardinality(released)]_vars

\* C30: getTaskStatus returns the task with the id asked for when it is in
\* the active store or in the history and null when it is in neither; for
\* a created task that the history has not dropped it never returns null.
C30_StatusLookup ==
  returned.op = "getTaskStatus" =>
    LET id == returned.id IN
      /\ (id \in activeTasks \/ InHistory(id)) => returned.value = id
      /\ (id \notin activeTasks /\ ~InHistory(id)) => returned.value = 0
      /\ (id \in Created /\ id \notin evicted) => returned.value # 0

\* the query has returned an active task
C30_Witness ==
  /\ returned.op = "getTaskStatus"
  /\ returned.id \in activeTasks
  /\ returned.value = returned.id

\* the query has returned null for a task the history has dropped
C30_WitnessEvicted ==
  /\ returned.op = "getTaskStatus"
  /\ returned.id \in Created
  /\ returned.id \in evicted
  /\ returned.value = 0

\* C31: executions in flight at the same time have different session ids,
\* and an execution that begins takes a session id that no session still
\* registered or open carries; two tasks may be running on one provider at
\* once, both admitted before either has updated the statistics.
C31_OwnSession ==
  /\ \A a, b \in TaskIds :
       (a # b /\ call[a].phase # "idle" /\ call[b].phase # "idle")
         => call[a].session # call[b].session
  /\ \A a \in TaskIds :
       call[a].phase = "launching"
         => call[a].session \notin DOMAIN browsers \cup DOMAIN handles

\* two tasks are running on the same provider with their calls in flight,
\* and the provider has not counted an action yet
C31_Witness ==
  \E a, b \in TaskIds :
    /\ a # b
    /\ task[a].status = "running" /\ task[b].status = "running"
    /\ call[a].phase # "idle" /\ call[b].phase # "idle"
    /\ call[a].provider = call[b].provider
    /\ provider[call[a].provider].actionCount = 0

\* C32: as long as no task has been created (the initial state of the
\* service and the states rejected calls and queries leave) the active store
\* and the history are empty, zefoy is registered and its statistics are
\* isAvailable = true, actionCount = 0, errorCount = 0.
C32_InitialState ==
  nextTask = 0 =>
    /\ activeTasks = {}
    /\ taskHistory = <<>>
    /\ \E i \in 1..Len(registry) : registry[i] = "zefoy"
    /\ "zefoy" \in DOMAIN provider
    /\ provider["zefoy"].isAvailable
    /\ provider["zefoy"].actionCount = 0
    /\ provider["zefoy"].errorCount = 0

\* the service as constructed: nothing has been called yet
C32_Witness ==
  /\ nextTask = 0
  /\ returned = Nothing
  /\ registry = <<"zefoy">>
  /\ provider["zefoy"].lastActionTime = 0
  /\ \A id \in TaskIds : call[id].phase = "idle" /\ task[id].status = None

\* C33: an execution that begins on a provider whose checkAvailability is
\* false ends at once as a failure: no session is acquired, the provider's
\* statistics stay as they were, no call is left in flight, and the task
\* counts one more failed attempt with the error of the refusal.
C33_RefusalFrame ==
  [][\A id \in TaskIds :
       ( /\ calls'[id] = calls[id] + 1
         /\ task[id].provider \in DOMAIN provider
         /\ ~CheckAvailability(task[id].provider, provider[task[id].provider], now) )
       => /\ provider' = provider
          /\ browsers' = browsers
          /\ handles' = handles
          /\ call'[id].phase = "idle"
          /\ task'[id].attempts = task[id].attempts + 1
          /\ failures'[id] = failures[id] + 1
          /\ task'[id].error = "Provider not available"]_vars

\* the only task has failed twice, the second time by a refusal of the
\* provider, which has counted one action
C33_Witness ==
  /\ nextTask = 1
  /\ task[1].error = "Provider not available"
  /\ task[1].attempts = 2
  /\ failures[1] = 2
  /\ calls[1] = 2
  /\ provider[task[1].provider].actionCount = 1
  /\ provider[task[1].provider].errorCount = 1

C35_ErrorCount ==
  /\ [](\A p \in DOMAIN provider :
          /\ provider[p].isAvailable => provider[p].errorCount < MaxRetries
          /\ 0 <= provider[p].errorCount
          /\ provider[p].errorCount <= provider[p].actionCount)
  /\ [][\A p \in DOMAIN provider :
          /\ provider'[p].actionCount >= provider[p].actionCount
          /\ provider'[p].lastActionTime >= provider[p].lastActionTime
          /\ UpdateStatsCall(p, FALSE) =>
               provider'[p].errorCount = provider[p].errorCount + 1
          /\ UpdateStatsCall(p, TRUE) => provider'[p].errorCount = 0
          /\ ResetProviders => provider'[p].errorCount = 0
          /\ provider'[p].errorCount # provider[p].errorCount =>
               \/ UpdateStatsCall(p, FALSE)
               \/ UpdateStatsCall(p, TRUE)
               \/ ResetProviders]_vars

\* a provider has failed as often as the threshold allows, without a
\* success or a reset in between, the last time after the clock had moved:
\* every action it counts is an error and it is not available
C35_Witness ==
  \E p \in DOMAIN provider :
    /\ ~provider[p].isAvailable
    /\ provider[p].errorCount = MaxRetries
    /\ provider[p].actionCount = MaxRetries
    /\ provider[p].lastActionTime > Epoch

\* C36: for every created task with maxAttempts >= 1, in every state
\* 0 <= attempts <= maxAttempts and attempts is the number of provider
\* executions of the task that have returned a failure; attempts never
\* decreases.
C36_AttemptsCount ==
  /\ [](\A id \in Created :
          task[id].maxAttempts >= 1 =>
            /\ 0 <= task[id].attempts
            /\ task[id].attempts <= task[id].maxAttempts
            /\ task[id].attempts = failures[id])
  /\ [][\A id \in TaskIds : task'[id].attempts >= task[id].attempts]_vars

\* one task allowed a single attempt has failed once and another, allowed
\* the default number, has failed on its first execution and on its retry
C36_Witness ==
  \E a, b \in Created :
    /\ task[a].maxAttempts = 1 /\ task[a].attempts = 1 /\ task[a].status = "failed"
    /\ task[b].maxAttempts = MaxRetries /\ task[b].attempts = 2
    /\ task[b].status = "failed" /\ calls[b] = 2

\* C37: every record in the history has a terminal status and every record
\* in the active store a status that is not terminal, so that getStats
\* reports completed + failed + cancelled equal to the length of the history
\* and total equal to the sizes of the two stores together.
C37_StoresByStatus ==
  /\ \A i \in 1..Len(taskHistory) : task[taskHistory[i]].status \in Terminal
  /\ \A id \in activeTasks : task[id].status \in {"pending", "running", "retrying"}
  /\ GetStats.completed + GetStats.failed + GetStats.cancelled = Len(taskHistory)
  /\ GetStats.total = Len(taskHistory) + Cardinality(activeTasks)

\* C38: a task never has more than one retry timer pending; while its timer
\* is pending no provider call of the task is in flight and the task is in
\* status retrying or has been cancelled; and an execution of a task begins
\* only when no call of the task is in flight.
C38_OneTimerOneCall ==
  /\ [](\A id \in TaskIds :
          /\ Cardinality({tm \in timers : tm.taskId = id}) <= 1
          /\ TimerPending(id) =>
               /\ call[id].phase = "idle"
               /\ task[id].status = "retrying" \/ id \in cancelledOk)
  /\ [][\A id \in TaskIds :
          calls'[id] # calls[id] =>
            /\ calls'[id] = calls[id] + 1
            /\ call[id].phase = "idle"
            /\ ~TimerPending(id)']_vars

\* one task is retrying with its timer pending and the timer of a task
\* cancelled in the meantime is pending too
C38_Witness ==
  \E a, b \in TaskIds :
    /\ TimerPending(a) /\ task[a].status = "retrying" /\ a \in activeTasks
    /\ TimerPending(b) /\ task[b].status = "cancelled" /\ b \in cancelledOk

\* C39: getTaskHistory(limit) returns the last min(limit, length) records
\* of the history in history order, for every limit >= 0, and none for a
\* limit of 0.
C39_LastRecords ==
  returned.op = "getTaskHistory" =>
    LET limit == returned.id
        n == IF limit < Len(taskHistory) THEN limit ELSE Len(taskHistory)
    IN /\ Len(returned.value) = n
       /\ \A i \in 1..n : returned.value[i] = taskHistory[Len(taskHistory) - n + i]

\* C40: when cleanup() returns the active store is empty and every task
\* that was active when it started is in the history with status
\* cancelled; the retry timer of a cancelled task that is no longer active
\* fires without starting an execution or changing any task or store.
C40_CleanupCancelsAll ==
  [][/\ returned'.op = "cleanup" =>
          /\ activeTasks' = {}
          /\ \A id \in activeTasks :
               /\ task'[id].status = "cancelled"
               /\ \E i \in 1..Len(taskHistory') : taskHistory'[i] = id
     /\ \A tm \in timers :
          (tm \notin timers' /\ tm.taskId \in cancelledOk /\ tm.taskId \notin activeTasks)
            => UNCHANGED <<task, activeTasks, taskHistory, call, calls, provider, browsers>>]_vars

\* cleanup has just cancelled two tasks, one waiting for its retry and one
\* with its provider call in flight
C40_Witness ==
  /\ returned.op = "cleanup"
  /\ activeTasks = {}
  /\ \E a, b \in Created :
       /\ a # b
       /\ task[a].status = "cancelled" /\ task[b].status = "cancelled"
       /\ task[a].cancelledAt = now /\ task[b].cancelledAt = now
       /\ TimerPending(a)
       /\ call[b].phase # "idle"

\* the retry timer of a task that cleanup cancelled has fired
C40_WitnessTimer ==
  /\ timers = {}
  /\ \E a \in cancelledOk :
       /\ task[a].status = "cancelled"
       /\ task[a].attempts = 1
       /\ calls[a] = 1
       /\ now >= task[a].cancelledAt + RetryDelay

====
